---- MODULE Spec2Model ----
(***************************************************************************)
(* Verification model of the obsidian-related-notes semantic search core:  *)
(* the vector store (SemanticSearchService.vectors and its two on-disk     *)
(* encodings), the indexing pipeline (indexNote / indexAll /               *)
(* cancelIndexing) and the host operations that interleave with it on the  *)
(* JavaScript event loop.  Every await of the source is a point where      *)
(* another handler may run; one action of the model is one synchronous     *)
(* segment between two awaits.                                             *)
(***************************************************************************)
EXTENDS Integers, Sequences, FiniteSets, TLC

(***************************************************************************)
(* Bounds of the model                                                     *)
(***************************************************************************)
\* highest modification time a document reaches (documents start at 1)
MaxMtime == 2
\* number of documents handed to indexAll in the batch specification
NumBatchDocs == 21
\* rejected awaits (vault.read, generateEmbedding, adapter write) in one behaviour
MaxFaults == 2
\* indexAll invocations one session slot may make
MaxRuns == 2

(***************************************************************************)
(* Program constants                                                       *)
(***************************************************************************)
\* indexAll saves every 10 successful notes
SaveEvery == 10
\* indexAll yields to the event loop every 5 files
YieldEvery == 5

(***************************************************************************)
(* Byte-level helpers for the binary vector file (DataView, little endian) *)
(***************************************************************************)
RECURSIVE Pow2(_)
Pow2(n) == IF n = 0 THEN 1 ELSE 2 * Pow2(n - 1)

RECURSIVE Log2Floor(_)
Log2Floor(n) == IF n < 2 THEN 0 ELSE 1 + Log2Floor(n \div 2)

Abs(n) == IF n < 0 THEN 0 - n ELSE n

\* value standing for a float that is NaN (an undefined written by setFloat32)
NaNValue == 1073741823
\* value standing for a decoded float outside the integers the model uses
OtherFloat == 1073741822
\* value standing for a uint32 of 2^31 or more
HugeU32 == 2147483647

\* DataView.setUint32(offset, n, true)
U32Bytes(n) ==
    << n % 256, (n \div 256) % 256, (n \div 65536) % 256, (n \div 16777216) % 256 >>

\* DataView.getUint32(offset, true) on four bytes
U32Value(b) ==
    IF b[4] >= 128 THEN HugeU32
    ELSE b[1] + (256 * b[2]) + (65536 * b[3]) + (16777216 * b[4])

\* significand of |n| rounded to 24 bits, round half to even (Math.fround)
F32Round(a) ==
    LET e == Log2Floor(a) IN
    IF e <= 23 THEN [e |-> e, sig |-> a * Pow2(23 - e)]
    ELSE LET sh   == e - 23
             q    == a \div Pow2(sh)
             r    == a % Pow2(sh)
             half == Pow2(sh - 1)
             up   == IF r > half \/ (r = half /\ q % 2 = 1) THEN 1 ELSE 0
             q2   == q + up
         IN IF q2 = 16777216 THEN [e |-> e + 1, sig |-> 8388608]
            ELSE [e |-> e, sig |-> q2]

\* DataView.setFloat32(offset, n, true): IEEE-754 binary32, little endian
F32Bytes(n) ==
    IF n = NaNValue THEN << 0, 0, 192, 127 >>
    ELSE IF n = 0 THEN << 0, 0, 0, 0 >>
    ELSE LET sign == IF n < 0 THEN 1 ELSE 0
             rd   == F32Round(Abs(n))
             ex   == rd.e + 127
             mant == rd.sig - 8388608
         IN << mant % 256, (mant \div 256) % 256,
               ((ex % 2) * 128) + (mant \div 65536),
               (sign * 128) + (ex \div 2) >>

\* DataView.getFloat32(offset, true) on four bytes
F32Value(b) ==
    LET sign == b[4] \div 128
        ex   == ((b[4] % 128) * 2) + (b[3] \div 128)
        mant == ((b[3] % 128) * 65536) + (b[2] * 256) + b[1]
        sig  == 8388608 + mant
        e    == ex - 127
        mag  == IF e >= 23 THEN sig * Pow2(e - 23) ELSE sig \div Pow2(23 - e)
    IN IF ex = 255 THEN (IF mant = 0 THEN OtherFloat ELSE NaNValue)
       ELSE IF ex = 0 THEN (IF mant = 0 THEN 0 ELSE OtherFloat)
       ELSE IF e < 0 \/ e > 29 THEN OtherFloat
       ELSE IF e < 23 /\ sig % Pow2(23 - e) # 0 THEN OtherFloat
       ELSE IF sign = 1 THEN 0 - mag ELSE mag

\* DataView.setFloat64(offset, n, true) for an integer 0 <= n < 2^21:
\* IEEE-754 binary64, little endian (the low 32 bits of the fraction are zero)
F64Bytes(n) ==
    IF n = 0 THEN << 0, 0, 0, 0, 0, 0, 0, 0 >>
    ELSE LET e   == Log2Floor(n)
             ex  == e + 1023
             top == (n - Pow2(e)) * Pow2(20 - e)
         IN << 0, 0, 0, 0, top % 256, (top \div 256) % 256,
               ((ex % 16) * 16) + (top \div 65536), ex \div 16 >>

\* DataView.getFloat64(offset, true) on eight bytes
F64Value(b) ==
    LET sign == b[8] \div 128
        ex   == ((b[8] % 128) * 16) + (b[7] \div 16)
        top  == ((b[7] % 16) * 65536) + (b[6] * 256) + b[5]
        low0 == b[1] = 0 /\ b[2] = 0 /\ b[3] = 0 /\ b[4] = 0
        e    == ex - 1023
        sig  == 1048576 + top
    IN IF ex = 0 /\ top = 0 /\ low0 THEN 0
       ELSE IF sign = 1 \/ ~low0 \/ e < 0 \/ e > 20 THEN OtherFloat
       ELSE IF sig % Pow2(20 - e) # 0 THEN OtherFloat
       ELSE sig \div Pow2(20 - e)

\* TextEncoder.encode of one code point below U+0800
Utf8Char(cp) ==
    IF cp < 128 THEN << cp >> ELSE << 192 + (cp \div 64), 128 + (cp % 64) >>

\* TextEncoder.encode(path): a path is a sequence of code points
RECURSIVE Utf8Encode(_)
Utf8Encode(s) ==
    IF s = << >> THEN << >> ELSE Utf8Char(Head(s)) \o Utf8Encode(Tail(s))

\* TextDecoder.decode(bytes): malformed input decodes to U+FFFD (65533)
RECURSIVE Utf8Decode(_)
Utf8Decode(b) ==
    IF b = << >> THEN << >>
    ELSE IF b[1] < 128 THEN << b[1] >> \o Utf8Decode(Tail(b))
    ELSE IF b[1] >= 194 /\ b[1] <= 223 /\ Len(b) >= 2 /\ b[2] >= 128 /\ b[2] <= 191
         THEN << (b[1] - 192) * 64 + (b[2] - 128) >> \o Utf8Decode(Tail(Tail(b)))
    ELSE << 65533 >> \o Utf8Decode(Tail(b))

Slice(b, off, n) == [k \in 1..n |-> b[off + k]]

RECURSIVE Flatten(_)
Flatten(ss) == IF ss = << >> THEN << >> ELSE Head(ss) \o Flatten(Tail(ss))

(***************************************************************************)
(* NoteVector records and the vectors array                                *)
(***************************************************************************)
\* a NoteVector { path, embedding, mtime }
NoteVector(p, e, m) == [path |-> p, embedding |-> e, mtime |-> m]

\* an empty slot of a sparse array (reads as undefined)
Hole == [hole |-> TRUE]

\* a null array element (a hole after JSON.stringify / JSON.parse)
Null == [null |-> TRUE]

IsRec(v) == "path" \in DOMAIN v

Min(S) == CHOOSE x \in S : \A y \in S : x <= y

\* this.vectors.findIndex(v => v.path === p), 1-based; 0 when nothing matches;
\* -1 when the callback dereferences undefined or null before a match (TypeError)
FindIndex(vs, p) ==
    LET hits == {k \in 1..Len(vs) : IsRec(vs[k]) /\ vs[k].path = p}
        bad  == {k \in 1..Len(vs) : ~IsRec(vs[k])}
    IN IF hits = {} THEN (IF bad = {} THEN 0 ELSE -1)
       ELSE IF \E b \in bad : b < Min(hits) THEN -1 ELSE Min(hits)

\* this.vectors[k] = rec : assignment past the end leaves holes in between
AssignAt(vs, k, rec) ==
    IF k <= Len(vs) THEN [vs EXCEPT ![k] = rec]
    ELSE [j \in 1..k |-> IF j <= Len(vs) THEN vs[j] ELSE IF j = k THEN rec ELSE Hole]

\* paths of the records of an array
PathsOf(vs) == {vs[k].path : k \in {j \in 1..Len(vs) : IsRec(vs[j])}}

\* records of an array, as a set
RecordsOf(vs) == {vs[k] : k \in {j \in 1..Len(vs) : IsRec(vs[j])}}

\* number of records of an array with path p
CountPath(vs, p) == Cardinality({k \in 1..Len(vs) : IsRec(vs[k]) /\ vs[k].path = p})

(***************************************************************************)
(* The binary vector file: saveVectorsBinary / loadVectorsBinary           *)
(***************************************************************************)
\* v.embedding[i] for i < dimension: undefined past the end is written as NaN
Component(e, i) == IF i <= Len(e) THEN e[i] ELSE NaNValue

\* one record of the body: Len + Path + Mtime + Vec
EncodeRecord(v, dimension) ==
    LET pathBytes == Utf8Encode(v.path)
    IN U32Bytes(Len(pathBytes)) \o pathBytes \o F64Bytes(v.mtime)
       \o Flatten([i \in 1..dimension |-> F32Bytes(Component(v.embedding, i))])

\* the buffer saveVectorsBinary hands to writeBinary for a non-empty array;
\* ok = FALSE when building it throws (an undefined or null element)
EncodeBinary(vs) ==
    IF \E k \in 1..Len(vs) : ~IsRec(vs[k]) THEN [ok |-> FALSE, buf |-> << >>]
    ELSE LET dimension == Len(vs[1].embedding)
         IN [ok |-> TRUE,
             buf |-> << 86, 69, 67, 49 >> \o U32Bytes(Len(vs)) \o U32Bytes(dimension)
                     \o Flatten([k \in 1..Len(vs) |-> EncodeRecord(vs[k], dimension)])]

\* the loop of loadVectorsBinary from record i on; a read past the end of the
\* buffer throws RangeError (ok = FALSE, recs = the records pushed before it)
RECURSIVE DecodeRecords(_, _, _, _, _)
DecodeRecords(buf, offset, n, dimension, acc) ==
    IF n = 0 THEN [ok |-> TRUE, recs |-> acc]
    ELSE IF offset + 4 > Len(buf) THEN [ok |-> FALSE, recs |-> acc]
    ELSE LET pathLen == U32Value(Slice(buf, offset, 4))
         IN IF pathLen > Len(buf) \/ offset + 4 + pathLen + 8 > Len(buf)
               \/ dimension > Len(buf)
               \/ offset + 4 + pathLen + 8 + (4 * dimension) > Len(buf)
            THEN [ok |-> FALSE, recs |-> acc]
            ELSE LET o1 == offset + 4
                     path == Utf8Decode(Slice(buf, o1, pathLen))
                     o2 == o1 + pathLen
                     mtime == F64Value(Slice(buf, o2, 8))
                     o3 == o2 + 8
                     embedding == [j \in 1..dimension |->
                                      F32Value(Slice(buf, o3 + (4 * (j - 1)), 4))]
                 IN DecodeRecords(buf, o3 + (4 * dimension), n - 1, dimension,
                                  Append(acc, NoteVector(path, embedding, mtime)))

\* the records loadVectorsBinary pushes for a buffer, or ok = FALSE when it throws
DecodeBinary(buf) ==
    IF Len(buf) < 4 THEN [ok |-> FALSE, recs |-> << >>]
    ELSE IF Slice(buf, 0, 4) # << 86, 69, 67, 49 >> THEN [ok |-> FALSE, recs |-> << >>]
    ELSE IF Len(buf) < 12 THEN [ok |-> FALSE, recs |-> << >>]
    ELSE DecodeRecords(buf, 12, U32Value(Slice(buf, 4, 4)), U32Value(Slice(buf, 8, 4)), << >>)

\* JSON.stringify(this.vectors): a hole is written as null
ToJson(vs) == [k \in 1..Len(vs) |-> IF IsRec(vs[k]) THEN vs[k] ELSE Null]

\* a file of the adapter: absent, or present with its contents
NoFile == [exists |-> FALSE, data |-> << >>]
File(d) == [exists |-> TRUE, data |-> d]

(***************************************************************************)
(* State                                                                   *)
(***************************************************************************)
VARIABLES
    vectors,          \* SemanticSearchService.vectors
    format,           \* SemanticSearchService.format
    binFile,          \* vectors.bin on disk
    jsonFile,         \* vectors.json on disk
    isIndexing,       \* SemanticSearchService.isIndexing
    abortController,  \* the session whose AbortController the field holds, or "none"
    aborted,          \* signal.aborted of each session's own AbortController
    corpus,           \* vault.getMarkdownFiles(): the documents, in order
    vault,            \* file.stat.mtime of every document
    model,            \* OllamaClient.config.model
    sess,             \* the indexAll invocations (locals and position)
    call,             \* the standalone indexNote invocations (view update)
    bootPc,           \* the un-awaited loadVectors() of onload
    clearPc,          \* the clearIndex() of the settings tab
    faults,           \* awaits the environment may still reject
    rtPhase,          \* round trip: "off", "saved" or "loaded"
    rtInput,          \* round trip: the store that was handed to save
    gen,              \* a generateEmbedding call of the OllamaClient
    query             \* a findRelated / searchByText call and what it returned

vars == << vectors, format, binFile, jsonFile, isIndexing, abortController, aborted,
           corpus, vault, model, sess, call, bootPc, clearPc,
           faults, rtPhase, rtInput, gen, query >>

diskVars == << binFile, jsonFile >>
flagVars == << isIndexing, abortController, aborted >>
envVars  == << corpus, vault, model >>
failVars == << faults >>
\* state of the runs of single operations; no service action touches it
auxVars  == << rtPhase, rtInput, gen, query >>
rtVars   == << rtPhase, rtInput >>
askVars  == << gen, query >>

Sessions == {"s1", "s2"}
Callers == {"n1", "n2"}

\* the embedding the provider returns for a document's content: the content
\* version (the modification time it was read at) and the document's first
\* code point
Embedding(p, content) == << content, p[1] >>

\* the embedding models the settings tab may name: the one the plugin starts
\* with, and one whose embeddings have one more dimension
DefaultModel == "model-a"
Models == {DefaultModel, "model-b"}

\* the embedding the provider returns under a model
EmbeddingBy(m, p, content) ==
    IF m = DefaultModel THEN Embedding(p, content)
    ELSE Embedding(p, content) \o << content >>

\* an indexAll invocation that is not running
IdleSess ==
    [pc |-> "idle", files |-> << >>, i |-> 0, succ |-> 0, err |-> 0, skip |-> 0,
     failed |-> << >>, ex |-> 0, content |-> 0, mdl |-> "none", cont |-> "none",
     buf |-> << >>,
     outcome |-> "none", runs |-> 0,
     cancelled |-> FALSE, order |-> << >>, wfail |-> {}, pruned |-> FALSE,
     prePrune |-> << >>, cleared |-> FALSE,
     progress |-> [processed |-> 0, total |-> 0, ended |-> 0]]

\* no generateEmbedding call has been made
IdleGen ==
    [pc |-> "idle", title |-> "", attempt |-> 0, reqs |-> << >>, waits |-> << >>,
     resps |-> << >>, last |-> 0, result |-> "none", value |-> << >>,
     mode |-> "none", error |-> "none", carries |-> << >>]

\* no query has been made
IdleQuery ==
    [op |-> "none", path |-> << >>, k |-> 0, found |-> FALSE, cands |-> << >>,
     ranked |-> << >>, result |-> << >>]

\* an indexNote invocation that is not running
IdleCall ==
    [pc |-> "idle", path |-> << >>, ex |-> 0, content |-> 0, mdl |-> "none",
     result |-> "none"]

(***************************************************************************)
(* indexAll: the synchronous segments between awaits.  Each operator       *)
(* returns the session's locals (s), this.vectors (vs) and whether the     *)
(* finally block ran (fin).                                                *)
(***************************************************************************)
Res(r, vs, fin) == [s |-> r, vs |-> vs, fin |-> fin]

\* indexAll returns or throws: finally { isIndexing = false; abortController = null }
Finish(r, vs, outcome) ==
    Res([r EXCEPT !.pc = "done", !.outcome = outcome], vs, TRUE)

\* await this.saveVectors(): runs up to await adapter.exists(dir)
BeginSave(r, vs, cont) == Res([r EXCEPT !.pc = "savedir", !.cont = cont], vs, FALSE)

\* a prune that keeps as many records as there are files, whatever their paths
PruneFilterByCount(vs, files) ==
    LET q == SelectSeq(vs, IsRec)
    IN SubSeq(q, 1, IF Len(q) < Len(files) THEN Len(q) ELSE Len(files))

\* this.vectors.filter(v => currentFilePaths.has(v.path)): holes are skipped,
\* a null element throws
PruneFilter(vs, files) ==
    SelectSeq(vs, LAMBDA v : IsRec(v) /\ \E k \in 1..Len(files) : files[k] = v.path)

\* "Prune deleted notes" up to the end of the try block
Prune(r, vs) ==
    IF \E k \in 1..Len(vs) : vs[k] = Null THEN Finish(r, vs, "resolved")
    ELSE LET kept == PruneFilter(vs, r.files)
             r2   == [r EXCEPT !.pruned = TRUE, !.prePrune = vs]
         IN IF Len(vs) - Len(kept) > 0 THEN BeginSave(r2, kept, "pruned")
            ELSE Finish(r2, kept, "resolved")

\* after the for loop: if (successCount > 0) await this.saveVectors()
AfterLoop(r, vs) == IF r.succ > 0 THEN BeginSave(r, vs, "final") ELSE Prune(r, vs)

\* throw new Error('Indexing cancelled') and the catch block that handles it
Cancelled(r, vs) ==
    LET r2 == [r EXCEPT !.cancelled = TRUE]
    IN IF r.succ > 0 THEN BeginSave(r2, vs, "cancel") ELSE Finish(r2, vs, "resolved")

RECURSIVE LoopHead(_, _, _, _, _)
RECURSIVE LoopCheck(_, _, _, _, _)
RECURSIVE AfterSuccess(_, _, _, _)
\* this.onIndexingProgress(processedCount, files.length) with processedCount = i;
\* ended is the number of documents whose iteration is over at that moment
OnIndexingProgress(r, i) ==
    [r EXCEPT !.i = i,
              !.progress = [processed |-> i, total |-> Len(r.files),
                            ended |-> r.succ + r.skip + r.err]]

\* top of the iteration for files[i]: count, report progress, yield every 5 files
LoopHead(r, vs, i, ab, mt) ==
    IF i > Len(r.files) THEN AfterLoop(r, vs)
    ELSE IF i % YieldEvery = 0
         THEN Res([OnIndexingProgress(r, i) EXCEPT !.pc = "yield"], vs, FALSE)
         ELSE LoopCheck(OnIndexingProgress(r, i), vs, i, ab, mt)

\* the iteration without its if (signal.aborted) throw
LoopCheckNoAbort(r, vs, i, ab, mt) ==
    LET k == FindIndex(vs, r.files[i])
    IN IF k = -1 THEN Finish(r, vs, "resolved")
       ELSE IF k = 0 \/ vs[k].mtime # mt[r.files[i]]
            THEN IF k > 0 /\ vs[k].mtime = mt[r.files[i]]
                 THEN AfterSuccess([r EXCEPT !.succ = @ + 1], vs, ab, mt)
                 ELSE Res([r EXCEPT !.pc = "read", !.ex = k], vs, FALSE)
            ELSE LoopHead([r EXCEPT !.skip = @ + 1], vs, i + 1, ab, mt)

\* rest of the iteration: abort check, mtime check, then indexNote up to its
\* await this.vault.read(file) (or its own return on an unmodified record)
LoopCheck(r, vs, i, ab, mt) ==
    IF ab THEN Cancelled(r, vs)
    ELSE LET k == FindIndex(vs, r.files[i])
         IN IF k = -1 THEN Finish(r, vs, "resolved")
            ELSE IF k = 0 \/ vs[k].mtime # mt[r.files[i]]
                 THEN IF k > 0 /\ vs[k].mtime = mt[r.files[i]]
                      THEN AfterSuccess([r EXCEPT !.succ = @ + 1], vs, ab, mt)
                      ELSE Res([r EXCEPT !.pc = "read", !.ex = k], vs, FALSE)
                 ELSE LoopHead([r EXCEPT !.skip = @ + 1], vs, i + 1, ab, mt)

\* the loop without its periodic save
AfterSuccessNoCheckpoint(r, vs, ab, mt) == LoopHead(r, vs, r.i + 1, ab, mt)

\* after successCount++: save every 10 notes, then the next file
AfterSuccess(r, vs, ab, mt) ==
    IF r.succ % SaveEvery = 0 THEN BeginSave(r, vs, "periodic")
    ELSE LoopHead(r, vs, r.i + 1, ab, mt)

\* the inner catch block up to await this.vault.read(file)
InnerCatch(r, vs) == Res([r EXCEPT !.pc = "catchread"], vs, FALSE)

\* saveVectors returned: the code after the await that called it
SaveDone(r, vs, ab, mt) ==
    CASE r.cont = "periodic" -> LoopHead(r, vs, r.i + 1, ab, mt)
      [] r.cont = "final"    -> Prune(r, vs)
      [] r.cont = "pruned"   -> Finish(r, vs, "resolved")
      [] r.cont = "cancel"   -> Finish(r, vs, "resolved")

\* saveVectors threw: the catch block that receives the error
SaveFailed(r, vs) ==
    LET r2 == [r EXCEPT !.wfail = @ \cup {r.cont}]
    IN CASE r.cont = "periodic" -> InnerCatch(r2, vs)
         [] r.cont = "final"    -> Finish(r2, vs, "resolved")
         [] r.cont = "pruned"   -> Finish(r2, vs, "resolved")
         [] r.cont = "cancel"   -> Finish(r2, vs, "rejected")

\* indexNote's write without the second findIndex: a call that saw no record
\* at entry always pushes
UpsertNoDoubleCheck(vs, ex, rec) ==
    IF ex > 0 THEN [ok |-> TRUE, vs |-> AssignAt(vs, ex, rec)]
    ELSE [ok |-> TRUE, vs |-> Append(vs, rec)]

\* the write of indexNote after the embedding arrived (ex = existingIndex);
\* ok = FALSE when the double check dereferences undefined or null
Upsert(vs, ex, rec) ==
    IF ex > 0 THEN [ok |-> TRUE, vs |-> AssignAt(vs, ex, rec)]
    ELSE LET doubleCheckIndex == FindIndex(vs, rec.path)
         IN IF doubleCheckIndex > 0
            THEN [ok |-> TRUE, vs |-> AssignAt(vs, doubleCheckIndex, rec)]
            ELSE IF doubleCheckIndex = -1 THEN [ok |-> FALSE, vs |-> vs]
            ELSE [ok |-> TRUE, vs |-> Append(vs, rec)]

\* a segment's result becomes the next state
Apply(s, res) ==
    /\ sess' = [sess EXCEPT ![s] = res.s]
    /\ vectors' = res.vs
    /\ IF res.fin
       THEN isIndexing' = FALSE /\ abortController' = "none" /\ UNCHANGED aborted
       ELSE UNCHANGED flagVars

(***************************************************************************)
(* loadVectors                                                             *)
(***************************************************************************)
\* JSON.parse(JSON.stringify(e)) of an embedding: NaN is written as null, which
\* every later arithmetic and setFloat32 reads as 0
JsonNumbers(e) == [i \in 1..Len(e) |-> IF e[i] = NaNValue THEN 0 ELSE e[i]]

\* JSON.parse of the text JSON.stringify produced
FromJson(data) ==
    [k \in 1..Len(data) |->
        IF IsRec(data[k])
        THEN NoteVector(data[k].path, JsonNumbers(data[k].embedding), data[k].mtime)
        ELSE Null]

\* loadVectorsBinary whose catch block leaves this.vectors as it is
LoadBinaryKeepsPartial(vs, f) ==
    IF ~f.exists THEN << >> ELSE vs \o DecodeBinary(f.data).recs

\* loadVectorsBinary: pushes the decoded records onto this.vectors; any throw
\* (missing file, bad magic, truncated buffer) resets this.vectors to []
LoadBinaryInto(vs, f) ==
    IF ~f.exists THEN << >>
    ELSE LET d == DecodeBinary(f.data)
         IN IF d.ok THEN vs \o d.recs ELSE << >>

\* loadVectorsJson: this.vectors = JSON.parse(content); [] when the read throws
LoadJsonInto(vs, f) == IF ~f.exists THEN << >> ELSE FromJson(f.data)

\* loadVectors up to its first await: this.vectors = [] and the format test
LoadEntry == IF format = "binary" THEN "existsbin" ELSE "existsjson"

(***************************************************************************)
(* indexAll: one action per await                                          *)
(***************************************************************************)
\* the host may call indexAll through slot s: the slot's previous invocation has
\* returned, and the second slot is used only once the first has been
SlotFree(s) ==
    /\ sess[s].pc \in {"idle", "done"}
    /\ sess[s].runs < MaxRuns
    /\ s = "s1" \/ sess["s1"].pc # "idle"

\* indexAll(files) is accepted: session start up to the first await of loadVectors
IndexAllStart(s) ==
    /\ SlotFree(s)
    /\ ~isIndexing
    /\ isIndexing' = TRUE
    /\ abortController' = s
    /\ aborted' = [aborted EXCEPT ![s] = FALSE]
    /\ vectors' = << >>
    /\ sess' = [sess EXCEPT ![s] = [IdleSess EXCEPT !.pc = LoadEntry, !.files = corpus,
                                                    !.runs = sess[s].runs + 1]]
    /\ UNCHANGED << format, diskVars, envVars, call, bootPc, clearPc, failVars >>
    /\ UNCHANGED auxVars

\* indexAll(files) while isIndexing: 'Indexing already in progress', return
IndexAllBusy(s) ==
    /\ SlotFree(s)
    /\ isIndexing
    /\ sess' = [sess EXCEPT ![s] = [IdleSess EXCEPT !.pc = "done", !.outcome = "busy",
                                                    !.runs = sess[s].runs + 1]]
    /\ UNCHANGED << vectors, format, diskVars, flagVars, envVars, call, bootPc,
                    clearPc, failVars >>
    /\ UNCHANGED auxVars

\* await adapter.exists(vectorStorePathBinary) of the session's loadVectors
SessExistsBin(s) ==
    /\ sess[s].pc = "existsbin"
    /\ sess' = [sess EXCEPT ![s].pc = IF binFile.exists THEN "readbin" ELSE "existsjson"]
    /\ UNCHANGED << vectors, format, diskVars, flagVars, envVars, call, bootPc,
                    clearPc, failVars >>
    /\ UNCHANGED auxVars

\* await adapter.exists(vectorStorePathJson) of the session's loadVectors; without
\* a file the load is over and the loop begins
SessExistsJson(s) ==
    /\ sess[s].pc = "existsjson"
    /\ IF jsonFile.exists
       THEN /\ sess' = [sess EXCEPT ![s].pc = "readjson"]
            /\ UNCHANGED << vectors, flagVars >>
       ELSE Apply(s, LoopHead(sess[s], vectors, 1, aborted[s], vault))
    /\ UNCHANGED << format, diskVars, envVars, call, bootPc, clearPc, failVars >>
    /\ UNCHANGED auxVars

\* await adapter.readBinary(...) of the session's loadVectorsBinary, then the loop
SessReadBin(s) ==
    /\ sess[s].pc = "readbin"
    /\ Apply(s, LoopHead(sess[s], LoadBinaryInto(vectors, binFile), 1, aborted[s], vault))
    /\ UNCHANGED << format, diskVars, envVars, call, bootPc, clearPc, failVars >>
    /\ UNCHANGED auxVars

\* await adapter.read(...) of the session's loadVectorsJson, then the loop
SessReadJson(s) ==
    /\ sess[s].pc = "readjson"
    /\ Apply(s, LoopHead(sess[s], LoadJsonInto(vectors, jsonFile), 1, aborted[s], vault))
    /\ UNCHANGED << format, diskVars, envVars, call, bootPc, clearPc, failVars >>
    /\ UNCHANGED auxVars

\* the setTimeout(resolve, 0) of every 5th file fires
SessYield(s) ==
    /\ sess[s].pc = "yield"
    /\ Apply(s, LoopCheck(sess[s], vectors, sess[s].i, aborted[s], vault))
    /\ UNCHANGED << format, diskVars, envVars, call, bootPc, clearPc, failVars >>
    /\ UNCHANGED auxVars

\* indexNote inside indexAll: await this.vault.read(file) settles and the
\* embedding request is sent, naming the model configured at that moment
SessRead(s) ==
    /\ sess[s].pc = "read"
    /\ \/ /\ sess' = [sess EXCEPT ![s].pc = "embed",
                                  ![s].content = vault[sess[s].files[sess[s].i]],
                                  ![s].mdl = model]
          /\ UNCHANGED << vectors, flagVars, failVars >>
       \/ /\ faults > 0
          /\ faults' = faults - 1
          /\ Apply(s, InnerCatch(sess[s], vectors))
    /\ UNCHANGED << format, diskVars, envVars, call, bootPc, clearPc >>
    /\ UNCHANGED auxVars

\* indexNote inside indexAll: await this.generateEmbedding(...) settles; on
\* success the record is written, successCount++ and every 10th success saves
SessEmbed(s) ==
    /\ sess[s].pc = "embed"
    /\ LET r   == sess[s]
           p   == r.files[r.i]
           rec == NoteVector(p, EmbeddingBy(r.mdl, p, r.content), vault[p])
           u   == Upsert(vectors, r.ex, rec)
           r2  == [r EXCEPT !.succ = @ + 1, !.order = Append(@, rec)]
       IN \/ /\ IF u.ok
                THEN Apply(s, AfterSuccess(r2, u.vs, aborted[s], vault))
                ELSE Apply(s, InnerCatch(r, vectors))
             /\ UNCHANGED failVars
          \/ /\ faults > 0
             /\ faults' = faults - 1
             /\ Apply(s, InnerCatch(r, vectors))
    /\ UNCHANGED << format, diskVars, envVars, call, bootPc, clearPc >>
    /\ UNCHANGED auxVars

\* the inner catch block: await this.vault.read(file) settles; failedFiles.push,
\* errorCount++ and on to the next file, or the read throws out of the catch
SessCatchRead(s) ==
    /\ sess[s].pc = "catchread"
    /\ LET r == sess[s]
           r2 == [r EXCEPT !.failed = Append(@, r.files[r.i]), !.err = @ + 1]
       IN \/ /\ Apply(s, LoopHead(r2, vectors, r.i + 1, aborted[s], vault))
             /\ UNCHANGED failVars
          \/ /\ faults > 0
             /\ faults' = faults - 1
             /\ Apply(s, Finish(r, vectors, "resolved"))
    /\ UNCHANGED << format, diskVars, envVars, call, bootPc, clearPc >>
    /\ UNCHANGED auxVars

\* saveVectors: await adapter.exists(dir) settles; the snapshot is serialised
\* and handed to the adapter (saveVectorsBinary returns at once when empty)
SessSaveDir(s) ==
    /\ sess[s].pc = "savedir"
    /\ LET r == sess[s]
           enc == EncodeBinary(vectors)
       IN IF format = "binary"
          THEN IF Len(vectors) = 0 THEN Apply(s, SaveDone(r, vectors, aborted[s], vault))
               ELSE IF enc.ok
                    THEN /\ sess' = [sess EXCEPT ![s].pc = "writebin", ![s].buf = enc.buf]
                         /\ UNCHANGED << vectors, flagVars >>
                    ELSE Apply(s, SaveFailed(r, vectors))
          ELSE /\ sess' = [sess EXCEPT ![s].pc = "writejson", ![s].buf = ToJson(vectors)]
               /\ UNCHANGED << vectors, flagVars >>
    /\ UNCHANGED << format, diskVars, envVars, call, bootPc, clearPc, failVars >>
    /\ UNCHANGED auxVars

\* saveVectorsBinary: await adapter.writeBinary(...) settles
SessWriteBin(s) ==
    /\ sess[s].pc = "writebin"
    /\ \/ /\ binFile' = File(sess[s].buf)
          /\ sess' = [sess EXCEPT ![s].pc = "saverm", ![s].buf = << >>]
          /\ UNCHANGED << vectors, jsonFile, flagVars, failVars >>
       \/ /\ faults > 0
          /\ faults' = faults - 1
          /\ Apply(s, SaveFailed([sess[s] EXCEPT !.buf = << >>], vectors))
          /\ UNCHANGED diskVars
    /\ UNCHANGED << format, envVars, call, bootPc, clearPc >>
    /\ UNCHANGED auxVars

\* saveVectorsJson: await adapter.write(...) settles
SessWriteJson(s) ==
    /\ sess[s].pc = "writejson"
    /\ \/ /\ jsonFile' = File(sess[s].buf)
          /\ Apply(s, SaveDone([sess[s] EXCEPT !.buf = << >>], vectors, aborted[s], vault))
          /\ UNCHANGED << binFile, failVars >>
       \/ /\ faults > 0
          /\ faults' = faults - 1
          /\ Apply(s, SaveFailed([sess[s] EXCEPT !.buf = << >>], vectors))
          /\ UNCHANGED diskVars
    /\ UNCHANGED << format, envVars, call, bootPc, clearPc >>
    /\ UNCHANGED auxVars

\* saveVectorsBinary: if (await exists(json)) await remove(json), then return
SessSaveRm(s) ==
    /\ sess[s].pc = "saverm"
    /\ jsonFile' = NoFile
    /\ Apply(s, SaveDone(sess[s], vectors, aborted[s], vault))
    /\ UNCHANGED << format, binFile, envVars, call, bootPc, clearPc, failVars >>
    /\ UNCHANGED auxVars

\* cancelIndexing() with a controller in the field
CancelIndexing ==
    /\ abortController # "none"
    /\ aborted' = [aborted EXCEPT ![abortController] = TRUE]
    /\ abortController' = "none"
    /\ isIndexing' = FALSE
    /\ UNCHANGED << vectors, format, diskVars, envVars, sess, call, bootPc, clearPc,
                    failVars >>
    /\ UNCHANGED auxVars

(***************************************************************************)
(* Standalone indexNote (RelatedNotesView: lazy indexing of the active     *)
(* file), one action per await                                             *)
(***************************************************************************)
\* indexNote without the "already indexed and not modified" return
NoteStartNoCacheCheck(c, p) ==
    /\ call[c].pc \in {"idle", "done"}
    /\ LET k == FindIndex(vectors, p)
       IN call' = [call EXCEPT ![c] =
                     IF k = -1 THEN [IdleCall EXCEPT !.pc = "done", !.path = p,
                                                     !.result = "error"]
                     ELSE [IdleCall EXCEPT !.pc = "read", !.path = p, !.ex = k]]
    /\ UNCHANGED << vectors, format, diskVars, flagVars, envVars, sess, bootPc,
                    clearPc, failVars >>
    /\ UNCHANGED auxVars

\* indexNote(file) up to await this.vault.read(file): findIndex and cache check
NoteStart(c, p) ==
    /\ call[c].pc \in {"idle", "done"}
    /\ LET k == FindIndex(vectors, p)
       IN call' = [call EXCEPT ![c] =
                     IF k = -1 THEN [IdleCall EXCEPT !.pc = "done", !.path = p,
                                                     !.result = "error"]
                     ELSE IF k > 0 /\ vectors[k].mtime = vault[p]
                          THEN [IdleCall EXCEPT !.pc = "done", !.path = p, !.ex = k,
                                                !.result = "hit"]
                          ELSE [IdleCall EXCEPT !.pc = "read", !.path = p, !.ex = k]]
    /\ UNCHANGED << vectors, format, diskVars, flagVars, envVars, sess, bootPc,
                    clearPc, failVars >>
    /\ UNCHANGED auxVars

\* await this.vault.read(file) settles and the embedding request is sent
NoteRead(c) ==
    /\ call[c].pc = "read"
    /\ \/ /\ call' = [call EXCEPT ![c].pc = "embed", ![c].content = vault[call[c].path],
                                  ![c].mdl = model]
          /\ UNCHANGED failVars
       \/ /\ faults > 0
          /\ faults' = faults - 1
          /\ call' = [call EXCEPT ![c].pc = "done", ![c].result = "error"]
    /\ UNCHANGED << vectors, format, diskVars, flagVars, envVars, sess, bootPc, clearPc >>
    /\ UNCHANGED auxVars

\* await this.generateEmbedding(...) settles; on success the record is written
NoteEmbed(c) ==
    /\ call[c].pc = "embed"
    /\ LET p == call[c].path
           u == Upsert(vectors, call[c].ex,
                       NoteVector(p, EmbeddingBy(call[c].mdl, p, call[c].content), vault[p]))
       IN \/ /\ vectors' = u.vs
             /\ call' = [call EXCEPT ![c].pc = "done",
                                     ![c].result = IF u.ok THEN "ok" ELSE "error"]
             /\ UNCHANGED failVars
          \/ /\ faults > 0
             /\ faults' = faults - 1
             /\ call' = [call EXCEPT ![c].pc = "done", ![c].result = "error"]
             /\ UNCHANGED vectors
    /\ UNCHANGED << format, diskVars, flagVars, envVars, sess, bootPc, clearPc >>
    /\ UNCHANGED auxVars

(***************************************************************************)
(* The loadVectors() that onload starts without awaiting it                *)
(***************************************************************************)
BootExistsBin ==
    /\ bootPc = "existsbin"
    /\ bootPc' = IF binFile.exists THEN "readbin" ELSE "existsjson"
    /\ UNCHANGED << vectors, format, diskVars, flagVars, envVars, sess, call, clearPc,
                    failVars >>
    /\ UNCHANGED auxVars

BootExistsJson ==
    /\ bootPc = "existsjson"
    /\ bootPc' = IF jsonFile.exists THEN "readjson" ELSE "done"
    /\ UNCHANGED << vectors, format, diskVars, flagVars, envVars, sess, call, clearPc,
                    failVars >>
    /\ UNCHANGED auxVars

BootReadBin ==
    /\ bootPc = "readbin"
    /\ vectors' = LoadBinaryInto(vectors, binFile)
    /\ bootPc' = "done"
    /\ UNCHANGED << format, diskVars, flagVars, envVars, sess, call, clearPc, failVars >>
    /\ UNCHANGED auxVars

BootReadJson ==
    /\ bootPc = "readjson"
    /\ vectors' = LoadJsonInto(vectors, jsonFile)
    /\ bootPc' = "done"
    /\ UNCHANGED << format, diskVars, flagVars, envVars, sess, call, clearPc, failVars >>
    /\ UNCHANGED auxVars

(***************************************************************************)
(* Other host operations                                                   *)
(***************************************************************************)
\* clearIndex() up to its first await: this.vectors = []
ClearStart ==
    /\ clearPc = "idle"
    /\ vectors' = << >>
    /\ clearPc' = "bin"
    /\ sess' = [s \in Sessions |->
                  IF sess[s].pc \in {"idle", "done"} THEN sess[s]
                  ELSE [sess[s] EXCEPT !.cleared = TRUE]]
    /\ UNCHANGED << format, diskVars, flagVars, envVars, call, bootPc, failVars >>
    /\ UNCHANGED auxVars

\* clearIndex(): if (await exists(binary)) await remove(binary)
ClearBin ==
    /\ clearPc = "bin"
    /\ binFile' = NoFile
    /\ clearPc' = "json"
    /\ UNCHANGED << vectors, format, jsonFile, flagVars, envVars, sess, call, bootPc,
                    failVars >>
    /\ UNCHANGED auxVars

\* clearIndex(): if (await exists(json)) await remove(json)
ClearJson ==
    /\ clearPc = "json"
    /\ jsonFile' = NoFile
    /\ clearPc' = "idle"
    /\ UNCHANGED << vectors, format, binFile, flagVars, envVars, sess, call, bootPc,
                    failVars >>
    /\ UNCHANGED auxVars

\* setFormat(format) from the settings dropdown
SetFormat(f) ==
    /\ f # format
    /\ format' = f
    /\ UNCHANGED << vectors, diskVars, flagVars, envVars, sess, call, bootPc, clearPc,
                    failVars >>
    /\ UNCHANGED auxVars

\* setModel(model) from the settings text field
SetModel(m) ==
    /\ m # model
    /\ model' = m
    /\ UNCHANGED << vectors, format, diskVars, flagVars, corpus, vault, sess, call,
                    bootPc, clearPc, failVars >>
    /\ UNCHANGED auxVars

\* the user edits a document: its stat.mtime advances
Modify(p) ==
    /\ vault[p] < MaxMtime
    /\ vault' = [vault EXCEPT ![p] = @ + 1]
    /\ UNCHANGED << vectors, format, diskVars, flagVars, corpus, model, sess, call, bootPc,
                    clearPc, failVars >>
    /\ UNCHANGED auxVars

(***************************************************************************)
(* OllamaClient.generateEmbedding: one action per await.  gen.reqs is the  *)
(* sequence of requests sent, gen.waits the backoff delays slept,          *)
(* gen.resps the outcomes of the requests in order                         *)
(***************************************************************************)
\* retries: number = 3
Retries == 3
\* Math.pow(2, attempt) * 1000
BaseDelay == 1000
\* response.status !== 200
StatusOk == 200

\* the title argument: left out, empty or a note's basename
NoTitle == "<undefined>"
Titles == {NoTitle, "", "T"}
\* if (title)
Truthy(t) == t \notin {NoTitle, ""}

\* response.text of a non-200 response, by the markers the client looks for:
\* ctx: 'context length' or 'context_length'; transient: 'EOF' or 'connection'
Bodies == [ctx : BOOLEAN, transient : BOOLEAN]
NoBody == [ctx |-> FALSE, transient |-> FALSE]

\* response.json.embedding: absent, not an array, or an array
Jsons ==
    { [kind |-> "missing", val |-> << >>],
      [kind |-> "string", val |-> << >>],
      [kind |-> "array", val |-> << >>],
      [kind |-> "array", val |-> << 5, 7 >>] }
NoJson == [kind |-> "missing", val |-> << >>]

\* requestUrl rejects (no connection)
Throw == [t |-> "throw", status |-> 0, body |-> NoBody, json |-> NoJson]

ErrorStatuses == {404, 500}

\* every outcome of one requestUrl call with throw: false
Responses ==
    {Throw}
    \cup {[t |-> "http", status |-> StatusOk, body |-> NoBody, json |-> j] : j \in Jsons}
    \cup {[t |-> "http", status |-> st, body |-> b, json |-> NoJson] :
            st \in ErrorStatuses, b \in Bodies}

\* errorText.includes('context length') || errorText.includes('context_length')
IsContextLength(body) == body.ctx

\* the outer test of the non-200 branch: transient marker or context length
FallbackAlways(body) == TRUE

FallbackEligible(body) == body.transient \/ IsContextLength(body)

\* the retry test of the non-200 branch that also retries a context-length error
BackoffIgnoresContext(attempt, body) == attempt < Retries

\* the retry test that never retries
BackoffNever(attempt, body) == FALSE

\* if (attempt < retries && !isContextLength)
BackoffOnNon200(attempt, body) == attempt < Retries /\ ~IsContextLength(body)

\* the retry test of the transport catch block: if (attempt < retries)
RetryAllowed(attempt) == attempt < Retries

\* a backoff that grows by one base delay per attempt
DelayLinear(attempt) == (attempt + 1) * BaseDelay

\* const delay = Math.pow(2, attempt) * 1000
Delay(attempt) == Pow2(attempt) * BaseDelay

\* the for loop's test: attempt <= retries
LoopContinues(attempt) == attempt <= Retries

\* data.embedding && Array.isArray(data.embedding)
Accepts(json) == json.kind = "array"

\* a 200 response with an embedding the client accepts
Usable(r) == r.t = "http" /\ r.status = StatusOk /\ Accepts(r.json)

\* return data.embedding
Return(g, r, mode) ==
    [g EXCEPT !.pc = "done", !.result = "embedding", !.value = r.json.val, !.mode = mode]

\* throw new Error(...): kind of error and the responses its message carries
Fail(g, kind, carried) ==
    [g EXCEPT !.pc = "done", !.result = "error", !.error = kind, !.carries = carried]

\* await new Promise(resolve => setTimeout(resolve, delay))
Backoff(g) == [g EXCEPT !.pc = "wait", !.waits = Append(@, Delay(g.attempt))]

\* a request of the given mode is sent
Send(g, mode) == [g EXCEPT !.pc = mode, !.reqs = Append(@, mode)]

\* the full-text request settles with r
AfterFull(g, r) ==
    LET g1 == [g EXCEPT !.resps = Append(@, r), !.last = Len(g.resps) + 1]
    IN IF r.t = "throw"
       THEN IF RetryAllowed(g.attempt) THEN Backoff(g1)
            ELSE Fail(g1, "connect", << g1.last >>)
       ELSE IF r.status # StatusOk
            THEN IF FallbackEligible(r.body)
                 THEN IF BackoffOnNon200(g.attempt, r.body) THEN Backoff(g1)
                      ELSE Send(g1, "safe")
                 ELSE Fail(g1, "api", << g1.last >>)
            ELSE IF Accepts(r.json) THEN Return(g1, r, "full")
                 ELSE Fail(g1, "invalid", << >>)

\* a continue that does not advance attempt
AfterWaitSameAttempt(g) == Send(g, "full")

\* the backoff timer fires: continue with attempt++
AfterWait(g) ==
    LET g1 == [g EXCEPT !.attempt = @ + 1]
    IN IF LoopContinues(g1.attempt) THEN Send(g1, "full")
       ELSE Fail(g1, "exhausted", << >>)

\* Safe Mode followed by Title Only without the if (title) test
AfterSafeNoTitleTest(g, r) ==
    LET g1 == [g EXCEPT !.resps = Append(@, r)]
    IN IF Usable(r) THEN Return(g1, r, "safe") ELSE Send(g1, "title")

\* the Safe Mode request settles with r
AfterSafe(g, r) ==
    LET g1 == [g EXCEPT !.resps = Append(@, r)]
    IN IF Usable(r) THEN Return(g1, r, "safe")
       ELSE IF Truthy(g.title) THEN Send(g1, "title")
            ELSE Fail(g1, "api", << g.last >>)

\* the Title Only request settles with r
AfterTitle(g, r) ==
    LET g1 == [g EXCEPT !.resps = Append(@, r)]
    IN IF Usable(r) THEN Return(g1, r, "title")
       ELSE Fail(g1, "api", << g.last >>)

\* everything but the generateEmbedding call
notGen == << vectors, format, diskVars, flagVars, envVars, sess, call, bootPc, clearPc,
             failVars, rtVars, query >>

\* generateEmbedding(text, title) up to its first await requestUrl
GenStart(t) ==
    /\ gen.pc = "idle"
    /\ gen' = Send([IdleGen EXCEPT !.title = t], "full")
    /\ UNCHANGED notGen

GenFull(r) ==
    /\ gen.pc = "full"
    /\ gen' = AfterFull(gen, r)
    /\ UNCHANGED notGen

GenWait ==
    /\ gen.pc = "wait"
    /\ gen' = AfterWait(gen)
    /\ UNCHANGED notGen

GenSafe(r) ==
    /\ gen.pc = "safe"
    /\ gen' = AfterSafe(gen, r)
    /\ UNCHANGED notGen

GenTitle(r) ==
    /\ gen.pc = "title"
    /\ gen' = AfterTitle(gen, r)
    /\ UNCHANGED notGen

(***************************************************************************)
(* Documents and initial states                                            *)
(***************************************************************************)
PathA == << 97 >>
PathB == << 233 >>
\* a note that was indexed once and has since been deleted from the vault
PathGone == << 98, 99 >>

SeqRange(q) == {q[k] : k \in 1..Len(q)}

\* loadVectors run to completion with nothing interleaved
LoadAll(fmt, bin, json) ==
    IF fmt = "binary" /\ bin.exists THEN LoadBinaryInto(<< >>, bin)
    ELSE IF json.exists THEN LoadJsonInto(<< >>, json)
    ELSE << >>

\* the store a previous run of the plugin left on disk
OldStore == << NoteVector(PathA, Embedding(PathA, 1), 1),
               NoteVector(PathGone, Embedding(PathGone, 1), 1) >>

\* what the plugin folder holds at startup
StartDisks ==
    { [bin |-> NoFile, json |-> NoFile],
      [bin |-> NoFile, json |-> File(ToJson(OldStore))],
      [bin |-> File(EncodeBinary(OldStore).buf), json |-> NoFile] }

\* the settings and plugin folder at startup: a fresh install, a store in the
\* configured format, or a legacy store under the binary setting
StartConfigs ==
    {c \in [format : {"json", "binary"}, disk : StartDisks] :
        ~(c.format = "json" /\ c.disk.bin.exists)}

\* the service's flags and pending operations after construction
InitProcs ==
    /\ isIndexing = FALSE
    /\ abortController = "none"
    /\ aborted = [s \in Sessions |-> FALSE]
    /\ sess = [s \in Sessions |-> IdleSess]
    /\ call = [c \in Callers |-> IdleCall]
    /\ clearPc = "idle"
    /\ model = DefaultModel
    /\ gen = IdleGen
    /\ query = IdleQuery

InitCommon ==
    /\ InitProcs
    /\ rtPhase = "off"
    /\ rtInput = << >>

\* the plugin once the loadVectors() of onload has finished, in an environment
\* that may reject up to budget awaits
InitService(budget) ==
    /\ InitCommon
    /\ faults = budget
    /\ corpus = << PathA, PathB >>
    /\ vault = [p \in {PathA, PathB} |-> 1]
    /\ \E c \in StartConfigs :
          /\ format = c.format
          /\ binFile = c.disk.bin
          /\ jsonFile = c.disk.json
          /\ vectors = LoadAll(c.format, c.disk.bin, c.disk.json)
    /\ bootPc = "done"

InitLoaded == InitService(MaxFaults)

Init == InitLoaded

\* the steps of an accepted indexAll invocation after its start
SessionRun(s) ==
    \/ SessExistsBin(s)
    \/ SessExistsJson(s)
    \/ SessReadBin(s)
    \/ SessReadJson(s)
    \/ SessRead(s)
    \/ SessEmbed(s)
    \/ SessCatchRead(s)
    \/ SessSaveDir(s)
    \/ SessWriteBin(s)
    \/ SessWriteJson(s)
    \/ SessSaveRm(s)

\* the settings tab: Start Indexing / Stop Indexing clicked at any moment
Next ==
    \/ \E s \in Sessions : IndexAllStart(s)
    \/ \E s \in Sessions : IndexAllBusy(s)
    \/ \E s \in Sessions : SessionRun(s)
    \/ CancelIndexing

Spec == Init /\ [][Next]_vars

(***************************************************************************)
(* indexNote alone: the view indexes the active file, calls may overlap    *)
(***************************************************************************)
NextIndexOne ==
    \/ \E c \in Callers : \E p \in SeqRange(corpus) : NoteStart(c, p)
    \/ \E c \in Callers : NoteRead(c)
    \/ \E c \in Callers : NoteEmbed(c)
    \/ \E p \in SeqRange(corpus) : Modify(p)

SpecIndexOne == InitLoaded /\ [][NextIndexOne]_vars

(***************************************************************************)
(* One indexAll at a time over a larger vault: the host starts the next    *)
(* operation only when the previous one has returned                       *)
(***************************************************************************)
\* awaits the environment may reject during the one run
MaxBatchFaults == 1

BatchDoc(k) == IF k % 4 = 2 THEN << 200 + k >> ELSE << 100 + k >>

BatchCorpus == [k \in 1..NumBatchDocs |-> BatchDoc(k)]

\* a store of an earlier run: one note up to date, one deleted since
BatchOldStore == << NoteVector(BatchDoc(3), Embedding(BatchDoc(3), 1), 1),
                    NoteVector(PathGone, Embedding(PathGone, 1), 1) >>

BatchDisks ==
    { [bin |-> NoFile, json |-> NoFile],
      [bin |-> NoFile, json |-> File(ToJson(BatchOldStore))],
      [bin |-> File(EncodeBinary(BatchOldStore).buf), json |-> NoFile] }

BatchConfigs ==
    {c \in [format : {"json", "binary"}, disk : BatchDisks] :
        ~(c.format = "json" /\ c.disk.bin.exists)}

InitBatch ==
    /\ InitCommon
    /\ faults = MaxBatchFaults
    /\ corpus = BatchCorpus
    /\ vault = [p \in SeqRange(BatchCorpus) |-> 1]
    /\ \E c \in BatchConfigs :
          /\ format = c.format
          /\ binFile = c.disk.bin
          /\ jsonFile = c.disk.json
          /\ vectors = LoadAll(c.format, c.disk.bin, c.disk.json)
    /\ bootPc = "done"

Quiet(s) == sess[s].pc \in {"idle", "done"}
CallQuiet(c) == call[c].pc \in {"idle", "done"}

\* one indexAll over the vault, which the user may stop at any moment
NextBatch ==
    \/ sess["s1"].runs = 0 /\ IndexAllStart("s1")
    \/ SessionRun("s1")
    \/ SessYield("s1")
    \/ CancelIndexing

SpecBatch == InitBatch /\ [][NextBatch]_vars

(***************************************************************************)
(* A host that starts the next operation only when the previous one has    *)
(* returned: indexAll runs, view updates and edits in sequence             *)
(***************************************************************************)
\* awaits the environment may reject among the sequential operations
MaxSeqFaults == 1

NextSeq ==
    \/ CallQuiet("n1") /\ IndexAllStart("s1")
    \/ SessionRun("s1")
    \/ \E p \in SeqRange(corpus) : Quiet("s1") /\ NoteStart("n1", p)
    \/ NoteRead("n1")
    \/ NoteEmbed("n1")
    \/ \E p \in SeqRange(corpus) : Modify(p)

InitSeq == InitService(MaxSeqFaults)

SpecSeq == InitSeq /\ [][NextSeq]_vars

(***************************************************************************)
(* Binary round trip: saveVectorsBinary then loadVectors, each run to      *)
(* completion, from any store and any earlier plugin folder                *)
(***************************************************************************)
\* longest store of the round trip
MaxStore == 2
\* largest embedding dimension of the round trip
MaxDim == 2

RtPaths == {PathA, PathB, PathGone}
RtValues == {0, -3}
RtMtimes == {1, 6}

\* every store of at most MaxStore records with distinct paths and one dimension
RtStores ==
    UNION { { q \in [1..n -> [path : RtPaths, embedding : [1..d -> RtValues],
                              mtime : RtMtimes]] :
                \A i, j \in 1..n : i # j => q[i].path # q[j].path }
            : n \in 0..MaxStore, d \in 0..MaxDim }

InitRoundTrip ==
    /\ InitCommon
    /\ faults = 0
    /\ corpus = << PathA, PathB >>
    /\ vault = [p \in {PathA, PathB} |-> 1]
    /\ format = "binary"
    /\ \E d \in StartDisks : binFile = d.bin /\ jsonFile = d.json
    /\ vectors \in RtStores
    /\ bootPc = "done"

\* saveVectorsBinary() from entry to return, every adapter call succeeding
RtSave ==
    /\ rtPhase = "off"
    /\ rtPhase' = "saved"
    /\ rtInput' = vectors
    /\ IF Len(vectors) = 0
       THEN UNCHANGED diskVars
       ELSE /\ binFile' = File(EncodeBinary(vectors).buf)
            /\ jsonFile' = NoFile
    /\ UNCHANGED << vectors, format, flagVars, envVars, sess, call, bootPc, clearPc,
                    failVars, askVars >>

\* loadVectors() from entry to return
RtLoad ==
    /\ rtPhase = "saved"
    /\ rtPhase' = "loaded"
    /\ vectors' = LoadAll(format, binFile, jsonFile)
    /\ UNCHANGED << rtInput, format, diskVars, flagVars, envVars, sess, call, bootPc,
                    clearPc, failVars, askVars >>

NextRoundTrip == RtSave \/ RtLoad

SpecRoundTrip == InitRoundTrip /\ [][NextRoundTrip]_vars

(***************************************************************************)
(* Loading a damaged binary file: a store was saved, the file was then     *)
(* cut short or its magic bytes overwritten, and loadVectors runs          *)
(***************************************************************************)
\* stores whose files get damaged: two records of dimension 2 with an ASCII
\* path, one record with a two-byte path character, one record of dimension 0
DamagedStores ==
    { OldStore,
      << NoteVector(PathB, << -3 >>, 6) >>,
      << NoteVector(PathA, << >>, 1) >> }

\* the file cut after its first c bytes
Truncated(buf, c) == SubSeq(buf, 1, c)

\* the file with its i-th magic byte overwritten
BadMagic(buf, i) == [buf EXCEPT ![i] = (@ + 1) % 256]

\* every damaged version of a store's file
DamagedFiles(q) ==
    LET buf == EncodeBinary(q).buf
    IN {Truncated(buf, c) : c \in 0..(Len(buf) - 1)} \cup {BadMagic(buf, i) : i \in 1..4}

InitDamaged ==
    /\ InitProcs
    /\ rtPhase = "saved"
    /\ faults = 0
    /\ corpus = << PathA, PathB >>
    /\ vault = [p \in {PathA, PathB} |-> 1]
    /\ format = "binary"
    /\ \E q \in DamagedStores :
          /\ vectors = q
          /\ rtInput = q
          /\ \E b \in DamagedFiles(q) : binFile = File(b)
    /\ jsonFile \in {NoFile, File(ToJson(OldStore))}
    /\ bootPc = "done"

NextDamaged == RtLoad

SpecDamaged == InitDamaged /\ [][NextDamaged]_vars

(***************************************************************************)
(* One generateEmbedding call against a provider that may answer each      *)
(* request in any way                                                      *)
(***************************************************************************)
InitEmbed == InitService(0) /\ format = "json" /\ ~jsonFile.exists

NextEmbed ==
    \/ \E t \in Titles : GenStart(t)
    \/ \E r \in Responses : GenFull(r)
    \/ GenWait
    \/ \E r \in Responses : GenSafe(r)
    \/ \E r \in Responses : GenTitle(r)

SpecEmbed == InitEmbed /\ [][NextEmbed]_vars

\* every request settles and every timer fires
SpecEmbedLive == SpecEmbed /\ WF_vars(NextEmbed)

(***************************************************************************)
(* cosineSimilarity, the ranking, findRelated and searchByText             *)
(*                                                                         *)
(* A score is kept exactly: the quotient dot / sqrt(sq) as the pair        *)
(* (dot, sq), or NaN.  On the embeddings queried here (QEmbeds) the        *)
(* doubles the code computes are ordered and tied exactly as the exact     *)
(* quotients are.                                                          *)
(***************************************************************************)
\* longest store queried
MaxQStore == 3
\* largest topK asked for
MaxK == 2

\* the double NaN
NaNScore == [nan |-> TRUE, dot |-> 0, sq |-> 1]

\* the sum of f(1) .. f(n): the accumulation of the loop of cosineSimilarity
RECURSIVE SumTo(_, _)
SumTo(f, n) == IF n = 0 THEN 0 ELSE SumTo(f, n - 1) + f[n]

\* cosineSimilarity(a, b).  The loop runs over a.length: a shorter b is read
\* past its end (undefined, and every sum becomes NaN), a longer b is cut.
\* A zero norm makes the quotient 0 / 0.
cosineSimilarity(a, b) ==
    IF Len(a) > Len(b) THEN NaNScore
    ELSE LET n == Len(a)
             dotProduct == SumTo([i \in 1..n |-> a[i] * b[i]], n)
             normA == SumTo([i \in 1..n |-> a[i] * a[i]], n)
             normB == SumTo([i \in 1..n |-> b[i] * b[i]], n)
         IN IF normA * normB = 0 THEN NaNScore
            ELSE [nan |-> FALSE, dot |-> dotProduct, sq |-> normA * normB]

\* the sign and square of a score's numerator scaled by the other score's
\* denominator: x / sqrt(q) < y / sqrt(p) iff Scaled(x, p) < Scaled(y, q)
Scaled(x, p) == IF x < 0 THEN 0 - x * x * p ELSE x * x * p

\* the number s is greater than the number t
Greater(s, t) == Scaled(s.dot, t.sq) > Scaled(t.dot, s.sq)

\* the comparator (a, b) => b.score - a.score returns a negative number:
\* a sorts before b.  A difference with a NaN operand is NaN, not negative.
Before(a, b) == ~a.score.nan /\ ~b.score.nan /\ Greater(a.score, b.score)

\* the comparator returns NaN for some pair of the array (a pair of an
\* element with itself included)
ComparatorNaN(cands) == \E i \in 1..Len(cands) : cands[i].score.nan

\* x put into a sorted sequence after every element that does not sort after it
RECURSIVE InsertSorted(_, _)
InsertSorted(sorted, x) ==
    IF sorted = << >> THEN << x >>
    ELSE IF Before(x, Head(sorted)) THEN << x >> \o sorted
    ELSE << Head(sorted) >> \o InsertSorted(Tail(sorted), x)

\* the stable sort of an array under the comparator
RECURSIVE StableSort(_)
StableSort(q) ==
    IF q = << >> THEN << >>
    ELSE InsertSorted(StableSort(SubSeq(q, 1, Len(q) - 1)), q[Len(q)])

\* the orders a stable comparison sort can leave an array in.  Such a sort
\* compares every element with the neighbours it ends up between: each element
\* either sorts before its right neighbour, or the comparator did not order
\* the two (it returned 0, or NaN, which the sort reads as 0) and the element
\* preceded that neighbour in the input.
NeighbourSorted(q) ==
    {[i \in 1..Len(q) |-> q[f[i]]] :
        f \in {g \in [1..Len(q) -> 1..Len(q)] :
                  /\ \A i, j \in 1..Len(q) : g[i] = g[j] => i = j
                  /\ \A i \in 1..(Len(q) - 1) :
                        \/ Before(q[g[i]], q[g[i + 1]])
                        \/ ~Before(q[g[i + 1]], q[g[i]]) /\ g[i] < g[i + 1]}}

\* what .sort((a, b) => b.score - a.score) may leave in the array.
\* Array.prototype.sort is stable under a consistent comparator; a comparator
\* that returns NaN is not consistent and the order is then
\* implementation-defined (ECMAScript, Array.prototype.sort).
SortOutcomes(cands) ==
    IF ComparatorNaN(cands) THEN NeighbourSorted(cands)
    ELSE {StableSort(cands)}

\* .slice(0, topK) for topK >= 0
SliceTo(q, topK) == SubSeq(q, 1, IF topK < Len(q) THEN topK ELSE Len(q))

\* .filter(v => v.path !== file.path), with every record in place of the
\* filter
OthersUnfiltered(vs, p) == vs

\* .filter(v => v.path !== file.path)
Others(vs, p) == SelectSeq(vs, LAMBDA v : v.path # p)

\* .map(v => ({path: v.path, score: this.cosineSimilarity(embedding, v.embedding)}))
Scores(vs, embedding) ==
    [i \in 1..Len(vs) |->
        [path |-> vs[i].path, score |-> cosineSimilarity(embedding, vs[i].embedding)]]

\* the entries whose path getAbstractFileByPath resolves to a TFile
Resolve(scores, vlt) == SelectSeq(scores, LAMBDA s : s.path \in DOMAIN vlt)

notQuery == << vectors, format, diskVars, flagVars, envVars, sess, call, bootPc,
               clearPc, failVars, rtVars, gen >>

\* the call returns: its candidates, the sorted and sliced list, and the
\* files it resolved
Answer(op, p, topK, cands, sorted) ==
    [op |-> op, path |-> p, k |-> topK, found |-> TRUE, cands |-> cands,
     ranked |-> SliceTo(sorted, topK),
     result |-> Resolve(SliceTo(sorted, topK), vault)]

\* findRelated(file, topK) for the file at path p
FindRelated(p, topK) ==
    LET t == FindIndex(vectors, p)
    IN /\ t >= 0
       /\ IF t = 0
          THEN query' = [IdleQuery EXCEPT !.op = "findRelated", !.path = p, !.k = topK]
          ELSE LET cands == Scores(Others(vectors, p), vectors[t].embedding)
               IN \E sorted \in SortOutcomes(cands) :
                     query' = Answer("findRelated", p, topK, cands, sorted)
       /\ UNCHANGED notQuery

\* searchByText(query, topK) once generateEmbedding has returned embedding
SearchByText(embedding, topK) ==
    LET cands == Scores(vectors, embedding)
    IN /\ \E sorted \in SortOutcomes(cands) :
             query' = Answer("searchByText", << >>, topK, cands, sorted)
       /\ UNCHANGED notQuery

\* searchByText(query, topK) when generateEmbedding throws: the call rejects
SearchByTextFails ==
    /\ query' = [IdleQuery EXCEPT !.op = "searchByText failed"]
    /\ UNCHANGED notQuery

QPaths == {PathA, PathB, PathGone}

\* embeddings a provider may have returned: a unit and a diagonal vector, the
\* zero vector, the empty array generateEmbedding accepts, and a vector of
\* another model's dimension
QEmbeds == {<< 1, 0 >>, << 1, 1 >>, << 0, 0 >>, << >>, << 1 >>}

\* every store of at most MaxQStore records with distinct paths
QStores ==
    UNION {{q \in [1..n -> [path : QPaths, embedding : QEmbeds, mtime : {1}]] :
               \A i, j \in 1..n : q[i].path = q[j].path => i = j} : n \in 0..MaxQStore}

\* the plugin with a store loaded, PathGone's document deleted since
InitQuery ==
    /\ InitCommon
    /\ faults = 0
    /\ corpus = << PathA, PathB >>
    /\ vault = [p \in {PathA, PathB} |-> 1]
    /\ format = "json"
    /\ binFile = NoFile
    /\ jsonFile = NoFile
    /\ vectors \in QStores
    /\ bootPc = "done"

NextQuery ==
    \/ \E p \in QPaths, topK \in 0..MaxK : FindRelated(p, topK)
    \/ \E e \in QEmbeds, topK \in 0..MaxK : SearchByText(e, topK)
    \/ SearchByTextFails

SpecQuery == InitQuery /\ [][NextQuery]_vars

(***************************************************************************)
(* Full indexing runs one after another, the user editing documents        *)
(* between the runs only                                                   *)
(***************************************************************************)
NextRerun ==
    \/ IndexAllStart("s1")
    \/ SessionRun("s1")
    \/ \E p \in SeqRange(corpus) : Quiet("s1") /\ Modify(p)

SpecRerun == InitSeq /\ [][NextRerun]_vars

(***************************************************************************)
(* Full indexing runs while the user may name another embedding model      *)
(***************************************************************************)
NextModel ==
    \/ IndexAllStart("s1")
    \/ SessionRun("s1")
    \/ \E p \in SeqRange(corpus) : Quiet("s1") /\ Modify(p)
    \/ \E m \in Models : SetModel(m)

SpecModel == InitSeq /\ [][NextModel]_vars

(***************************************************************************)
(* Migration from the legacy file: the format is binary, the plugin folder *)
(* holds vectors.json only; loadVectors, then saveVectors, each run to     *)
(* completion                                                              *)
(***************************************************************************)
InitMigrate ==
    /\ InitProcs
    /\ rtPhase = "saved"
    /\ faults = 0
    /\ corpus = << PathA, PathB >>
    /\ vault = [p \in {PathA, PathB} |-> 1]
    /\ format = "binary"
    /\ binFile = NoFile
    /\ \E q \in RtStores : rtInput = q /\ jsonFile = File(ToJson(q))
    /\ vectors = << >>
    /\ bootPc = "done"

\* saveVectors() from entry to return once the store is loaded, every adapter
\* call succeeding
RtResave ==
    /\ rtPhase = "loaded"
    /\ rtPhase' = "resaved"
    /\ IF format = "binary"
       THEN IF Len(vectors) = 0
            THEN UNCHANGED diskVars
            ELSE /\ binFile' = File(EncodeBinary(vectors).buf)
                 /\ jsonFile' = NoFile
       ELSE /\ jsonFile' = File(ToJson(vectors))
            /\ UNCHANGED binFile
    /\ UNCHANGED << vectors, rtInput, format, flagVars, envVars, sess, call, bootPc,
                    clearPc, failVars, askVars >>

NextMigrate == RtLoad \/ RtResave

SpecMigrate == InitMigrate /\ [][NextMigrate]_vars

(***************************************************************************)
(* Indexing requests one after another in an environment in which the      *)
(* adapter calls of loadVectors may reject too                             *)
(***************************************************************************)
\* indexAll's await this.loadVectors() rejects: adapter.exists rejects, which
\* loadVectors does not catch.  The await is before indexAll's try block, so
\* neither its catch nor its finally block runs.
SessLoadThrows(s) ==
    /\ sess[s].pc \in {"existsbin", "existsjson"}
    /\ faults > 0
    /\ faults' = faults - 1
    /\ sess' = [sess EXCEPT ![s].pc = "done", ![s].outcome = "rejected"]
    /\ UNCHANGED << vectors, format, diskVars, flagVars, envVars, call, bootPc, clearPc >>
    /\ UNCHANGED auxVars

NextRestart ==
    \/ IndexAllStart("s1")
    \/ IndexAllBusy("s1")
    \/ SessionRun("s1")
    \/ SessLoadThrows("s1")
    \/ CancelIndexing

SpecRestart == InitSeq /\ [][NextRestart]_vars

(***************************************************************************)
(* Delete Index clicked while the view indexes the active file: no         *)
(* indexAll session runs at any time                                       *)
(***************************************************************************)
NextClear ==
    \/ \E p \in SeqRange(corpus) : NoteStart("n1", p)
    \/ NoteRead("n1")
    \/ NoteEmbed("n1")
    \/ ClearStart
    \/ ClearBin
    \/ ClearJson
    \/ \E p \in SeqRange(corpus) : Modify(p)

SpecClear == InitSeq /\ [][NextClear]_vars

(***************************************************************************)
(* Startup: onload calls loadVectors() without awaiting it, and the view   *)
(* indexes the active file while that load is still in progress            *)
(***************************************************************************)
\* the plugin right after onload: loadVectors() has run up to its first await
InitBoot ==
    /\ InitCommon
    /\ faults = MaxSeqFaults
    /\ corpus = << PathA, PathB >>
    /\ vault = [p \in {PathA, PathB} |-> 1]
    /\ \E c \in StartConfigs :
          /\ format = c.format
          /\ binFile = c.disk.bin
          /\ jsonFile = c.disk.json
    /\ vectors = << >>
    /\ bootPc = IF format = "binary" THEN "existsbin" ELSE "existsjson"

NextBoot ==
    \/ BootExistsBin
    \/ BootExistsJson
    \/ BootReadBin
    \/ BootReadJson
    \/ \E p \in SeqRange(corpus) : NoteStart("n1", p)
    \/ NoteRead("n1")
    \/ NoteEmbed("n1")
    \/ \E p \in SeqRange(corpus) : Modify(p)

SpecBoot == InitBoot /\ [][NextBoot]_vars

(***************************************************************************)
(* Documents are edited, then one indexAll runs, with Stop Indexing        *)
(* clicked at any moment                                                   *)
(***************************************************************************)
NextStop ==
    \/ sess["s1"].runs = 0 /\ IndexAllStart("s1")
    \/ SessionRun("s1")
    \/ CancelIndexing
    \/ \E p \in SeqRange(corpus) : sess["s1"].runs = 0 /\ Modify(p)

SpecStop == InitSeq /\ [][NextStop]_vars

(***************************************************************************)
(* The storage format is switched in the settings between indexAll runs,   *)
(* each of which loads the store and saves it                              *)
(***************************************************************************)
NextFormat ==
    \/ IndexAllStart("s1")
    \/ SessionRun("s1")
    \/ \E f \in {"json", "binary"} : Quiet("s1") /\ SetFormat(f)
    \/ \E p \in SeqRange(corpus) : Quiet("s1") /\ Modify(p)

SpecFormat == InitSeq /\ [][NextFormat]_vars

(***************************************************************************)
(* Properties                                                              *)
(***************************************************************************)
\* what a fresh loadVectors() would bring back from the plugin folder
DiskStore == LoadAll(format, binFile, jsonFile)

\* the store holds a record of p that carries p's current modification time
FreshRecord(vs, p) ==
    \E k \in 1..Len(vs) : IsRec(vs[k]) /\ vs[k].path = p /\ vs[k].mtime = vault[p]

\* every element is a record and no path occurs twice
OneRecordPerPath ==
    /\ \A k \in 1..Len(vectors) : IsRec(vectors[k])
    /\ \A p \in PathsOf(vectors) : CountPath(vectors, p) = 1

\* the step in which indexNote call c writes its record
WritesRecord(c) ==
    /\ call[c].pc = "embed"
    /\ call'[c].pc = "done"
    /\ call'[c].result = "ok"

\* C1: whatever sequence of indexNote calls has run, two overlapping calls for
\* the same path that both started before either inserted included, the store
\* holds exactly one record per path, and the record of a path is the one the
\* call that finished last wrote: each finishing call leaves its own record as
\* the only record of its path
C1_OneRecordLastFinisherWins ==
    /\ []OneRecordPerPath
    /\ [][\A c \in Callers :
             WritesRecord(c) =>
                LET p == call[c].path
                    rec == NoteVector(p, Embedding(p, call[c].content), vault[p])
                IN /\ CountPath(vectors', p) = 1
                   /\ rec \in RecordsOf(vectors')
                   /\ \A q \in PathsOf(vectors) \ {p} :
                         \A v \in RecordsOf(vectors) :
                            v.path = q => v \in RecordsOf(vectors')]_vars

\* both calls found no record of the same path at entry, and both have written
C1_Witness ==
    /\ call["n1"].pc = "done" /\ call["n1"].result = "ok" /\ call["n1"].ex = 0
    /\ call["n2"].pc = "done" /\ call["n2"].result = "ok" /\ call["n2"].ex = 0
    /\ call["n1"].path = call["n2"].path
    /\ CountPath(vectors, call["n1"].path) = 1

\* an indexAll invocation that was accepted and has not returned yet
Active(s) == sess[s].pc \notin {"idle", "done"}

\* C2: at most one indexAll invocation is active at any time, also after
\* cancelIndexing() was called and the running invocation has not observed it
C2_AtMostOneSession == Cardinality({s \in Sessions : Active(s)}) <= 1

\* C3: an indexAll that was cancelled has, when it returns, every record it
\* wrote into the store on disk (its own save not having failed and the index
\* not having been cleared meanwhile)
C3_CancelledRunPersisted ==
    \A s \in Sessions :
        (sess[s].pc = "done" /\ sess[s].cancelled /\ sess[s].wfail = {}
            /\ ~sess[s].cleared)
        => LET disk == RecordsOf(DiskStore)
           IN \A k \in 1..Len(sess[s].order) : sess[s].order[k] \in disk

\* C4: the caller can tell a cancelled indexAll from one that ran to the end:
\* a cancelled invocation does not resolve the way a completed one does
C4_CancelDistinguishable ==
    \A s \in Sessions :
        (sess[s].pc = "done" /\ sess[s].cancelled) => sess[s].outcome # "resolved"

\* the invocation is inside the save that follows a 10th success
InCheckpoint(s) ==
    sess[s].cont = "periodic" /\ sess[s].pc \in {"savedir", "writebin", "writejson", "saverm"}

\* C5: in a run whose saves do not fail, once s documents have been indexed
\* and the save of the latest 10th success has returned, the store on disk
\* holds the records of the first 10 * floor(s / 10) of them
C5_PeriodicCheckpoint ==
    \A s \in Sessions :
        (sess[s].pc # "idle" /\ sess[s].wfail = {} /\ ~InCheckpoint(s))
        => LET disk == RecordsOf(DiskStore)
           IN \A k \in 1..(SaveEvery * (sess[s].succ \div SaveEvery)) :
                 /\ k <= Len(sess[s].order)
                 /\ sess[s].order[k] \in disk

\* the run is past its second checkpoint and indexing the next document
C5_Witness ==
    /\ sess["s1"].succ = 2 * SaveEvery
    /\ sess["s1"].pc = "embed"
    /\ sess["s1"].wfail = {}

\* C6: a document whose embedding fails or whose content cannot be read is
\* recorded and skipped: a run that was not cancelled and whose saves did not
\* fail has, when it returns, gone through every document and pruned
C6_FailureSkipped ==
    \A s \in Sessions :
        (sess[s].pc = "done" /\ sess[s].outcome # "busy" /\ ~sess[s].cancelled
            /\ sess[s].wfail = {})
        => (sess[s].i = Len(sess[s].files) /\ sess[s].pruned)

\* C7: a save that fails inside indexAll (periodic, final or after pruning)
\* ends the run with a rejection and is not counted as a document failure
C7_PersistFailureFatal ==
    \A s \in Sessions :
        sess[s].wfail # {} => (sess[s].pc = "done" /\ sess[s].outcome = "rejected")

\* C8: no embedding is requested for a document whose record carries the
\* document's current modification time: neither a view update nor an
\* indexAll is between its content read and its write for such a document
C8_NoRequestWhenUnmodified ==
    /\ \A c \in Callers :
          call[c].pc \in {"read", "embed"} => ~FreshRecord(vectors, call[c].path)
    /\ \A s \in Sessions :
          sess[s].pc \in {"read", "embed"}
          => ~FreshRecord(vectors, sess[s].files[sess[s].i])

\* a second view update of a note the first one indexed returned at once, and
\* a second indexAll over the indexed vault went through it without a request
C8_Witness ==
    /\ call["n1"].pc = "done" /\ call["n1"].result = "hit" /\ call["n1"].path = PathB
    /\ sess["s1"].runs = 2 /\ sess["s1"].pc = "done" /\ ~sess["s1"].cancelled
    /\ sess["s1"].i = Len(sess["s1"].files)
    /\ sess["s1"].succ = 0 /\ sess["s1"].err = 0

\* the step in which invocation s prunes
Prunes(s) == ~sess[s].pruned /\ sess'[s].pruned

\* C9: pruning removes exactly the records whose path is not in the document
\* list: what it leaves is the store before it, in order, without those records
C9_PruneExact ==
    [][\A s \in Sessions :
          Prunes(s) =>
             LET before == sess'[s].prePrune
                 files == SeqRange(sess[s].files)
             IN /\ vectors' = SelectSeq(before, LAMBDA v : v.path \in files)
                /\ \A v \in RecordsOf(before) :
                      v \in RecordsOf(vectors') <=> v.path \in files]_vars

\* a run pruned the deleted note and kept the others
C9_Witness ==
    /\ sess["s1"].pruned
    /\ PathGone \in PathsOf(sess["s1"].prePrune)
    /\ PathGone \notin PathsOf(vectors)
    /\ Len(vectors) = Len(sess["s1"].prePrune) - 1
    /\ Len(vectors) > 1

\* C10: a binary save followed by a load brings back the store that was saved,
\* the empty store and any earlier plugin folder included
C10_BinaryRoundTrip == rtPhase = "loaded" => vectors = rtInput

\* C11: loading a binary file whose magic bytes are wrong or whose buffer ends
\* part-way leaves the store empty, no decoded record remaining, and the load
\* returns to its caller
C11_DamagedFileEmptyStore ==
    [][rtPhase = "saved" => (rtPhase' = "loaded" /\ vectors' = << >>)]_vars

\* a file that ends inside its second record has been loaded: the first record
\* had been decoded before the read past the end
C11_Witness ==
    /\ rtPhase = "loaded"
    /\ vectors = << >>
    /\ Len(binFile.data) > 12
    /\ DecodeBinary(binFile.data).recs # << >>
    /\ ~DecodeBinary(binFile.data).ok

\* the outcomes of the full-text requests so far, in order
FullResps == SubSeq(gen.resps, 1, gen.last)

\* number of requests of a mode sent so far
Sent(mode) == Cardinality({k \in 1..Len(gen.reqs) : gen.reqs[k] = mode})

\* a non-200 response whose text has a context-length marker
ContextError(r) == r.t = "http" /\ r.status # StatusOk /\ r.body.ctx

\* a non-200 response whose text has a transient marker and no context-length one
TransientError(r) == r.t = "http" /\ r.status # StatusOk /\ r.body.transient /\ ~r.body.ctx

\* a non-200 response whose text has neither marker
OtherError(r) == r.t = "http" /\ r.status # StatusOk /\ ~r.body.transient /\ ~r.body.ctx

\* the backoff delays slept so far are base, 2 base, 4 base, ...
ExponentialWaits ==
    \A i \in 1..Len(gen.waits) : gen.waits[i] = BaseDelay * Pow2(i - 1)

\* C12: when the first full-text request gets a context-length error, no
\* further full-text request is sent and no backoff is slept; the next request
\* is the Safe Mode request, and when that succeeds its embedding is returned
\* and no Title Only request is sent, title or not
C12_ContextLengthSkipsRetries ==
    (Len(gen.resps) >= 1 /\ ContextError(gen.resps[1]))
    => /\ Sent("full") = 1
       /\ gen.waits = << >>
       /\ Len(gen.reqs) >= 2 /\ gen.reqs[2] = "safe"
       /\ (Len(gen.resps) >= 2 /\ Usable(gen.resps[2]))
          => /\ gen.pc = "done" /\ gen.result = "embedding"
             /\ gen.value = gen.resps[2].json.val
             /\ Sent("title") = 0

\* a call with a title got a context-length error, then a Safe Mode embedding
C12_Witness ==
    /\ gen.pc = "done" /\ gen.mode = "safe" /\ gen.title = "T"
    /\ gen.value = << 5, 7 >>
    /\ Len(gen.resps) = 2 /\ ContextError(gen.resps[1])

\* C13: while the full-text requests get transient errors they are retried with
\* backoff, and the Safe Mode request is sent only when the last allowed
\* full-text attempt has failed that way too
C13_TransientRetriedToCeiling ==
    /\ (\A k \in 1..gen.last : TransientError(gen.resps[k]))
       => /\ Len(gen.waits) = (IF gen.last < Retries THEN gen.last ELSE Retries)
          /\ ExponentialWaits
          /\ Sent("safe") = (IF gen.last = Retries + 1 THEN 1 ELSE 0)
    /\ (Sent("safe") > 0 /\ TransientError(gen.resps[gen.last]))
       => (Sent("full") = Retries + 1 /\ gen.last = Retries + 1)

\* four transient errors in a row, then the Safe Mode request
C13_Witness ==
    /\ gen.pc = "safe"
    /\ gen.last = Retries + 1
    /\ \A k \in 1..gen.last : TransientError(gen.resps[k])
    /\ gen.waits = << 1000, 2000, 4000 >>

\* C14: a non-200 response with neither marker ends the call at once with an
\* error that carries that response (status and text); no request follows it
C14_OtherErrorFailsAtOnce ==
    \A k \in 1..gen.last :
        OtherError(gen.resps[k])
        => /\ gen.pc = "done" /\ gen.result = "error" /\ gen.error = "api"
           /\ gen.carries = << k >>
           /\ Len(gen.resps) = k /\ Len(gen.reqs) = k
           /\ Sent("full") = k

\* the second full-text request, sent after a transport failure, got a 404
\* without markers
C14_Witness ==
    /\ gen.pc = "done" /\ gen.error = "api"
    /\ Len(gen.resps) = 2
    /\ gen.resps[1] = Throw
    /\ OtherError(gen.resps[2]) /\ gen.resps[2].status = 404

\* C15: while the full-text requests fail at the transport level they are
\* retried, retries + 1 attempts in all, with base * 2^attempt slept before the
\* next attempt; when all have failed the call fails with a connection error
\* and neither a Safe Mode nor a Title Only request has been sent
C15_TransportRetriesThenConnectError ==
    /\ (\A k \in 1..gen.last : gen.resps[k] = Throw)
       => /\ Len(gen.waits) = (IF gen.last < Retries THEN gen.last ELSE Retries)
          /\ ExponentialWaits
          /\ Sent("safe") = 0 /\ Sent("title") = 0
          /\ gen.last = Retries + 1
             => /\ gen.pc = "done" /\ gen.result = "error" /\ gen.error = "connect"
                /\ Sent("full") = Retries + 1
    /\ gen.error = "connect"
       => (Sent("full") = Retries + 1 /\ Sent("safe") = 0 /\ Sent("title") = 0)

\* four transport failures in a row: the call has failed
C15_Witness ==
    /\ gen.pc = "done" /\ gen.error = "connect"
    /\ gen.resps = << Throw, Throw, Throw, Throw >>
    /\ gen.waits = << 1000, 2000, 4000 >>

\* a 200 response without an embedding array
Malformed(r) == r.t = "http" /\ r.status = StatusOk /\ r.json.kind # "array"

\* C16: a 200 response without a valid embedding makes the call go on to the
\* next mode: after such a full-text response a Safe Mode request is sent, and
\* after such a Safe Mode response a Title Only request when a title was given
C16_MalformedContinuesChain ==
    /\ (gen.last >= 1 /\ Malformed(gen.resps[gen.last])) => Sent("safe") = 1
    /\ (Len(gen.resps) > gen.last /\ Sent("safe") = 1
          /\ Malformed(gen.resps[gen.last + 1]) /\ Truthy(gen.title))
       => Sent("title") = 1

\* C17: when the full-text attempt, Safe Mode and Title Only have all failed,
\* the error carries the failure of every mode that was attempted
C17_ErrorCarriesChain ==
    (gen.pc = "done" /\ gen.result = "error" /\ Sent("safe") = 1)
    => \A k \in gen.last..Len(gen.resps) : \E i \in 1..Len(gen.carries) : gen.carries[i] = k

\* C18: every generateEmbedding call ends, after at most retries + 1 full-text
\* requests, one Safe Mode request and one Title Only request
C18_CallTerminatesBounded ==
    /\ [](Sent("full") <= Retries + 1 /\ Sent("safe") <= 1 /\ Sent("title") <= 1)
    /\ <>(gen.pc = "done")

\* a call that used every request it may send: transport failures and
\* transient errors mixed, then Safe Mode and Title Only
C18_Witness ==
    /\ gen.pc = "done"
    /\ Sent("full") = Retries + 1 /\ Sent("safe") = 1 /\ Sent("title") = 1
    /\ \E k \in 1..gen.last : gen.resps[k] = Throw
    /\ \E k \in 1..gen.last : TransientError(gen.resps[k])

\* C19: findRelated(document, k) returns an empty result when the store has no
\* record for the document's path; otherwise the result never contains the
\* document itself and every returned path is the path of another record of
\* the store
C19_FindRelatedOthersOnly ==
    query.op = "findRelated" =>
        LET returned == {query.result[i].path : i \in 1..Len(query.result)}
        IN /\ (FindIndex(vectors, query.path) = 0 => query.result = << >>)
           /\ query.path \notin returned
           /\ returned \subseteq (PathsOf(vectors) \ {query.path})

\* a findRelated call for an indexed document that returned another document
C19_Witness ==
    /\ query.op = "findRelated"
    /\ query.found
    /\ FindIndex(vectors, query.path) > 0
    /\ Len(query.result) >= 1

\* C20: the list findRelated and searchByText rank is the k highest-scoring
\* candidates in non-increasing score order, candidates of equal score in
\* their store order (so it is a function of the store and the query); it has
\* at most k entries and is empty for k = 0.  A NaN score counts as 0.
C20_RankingTopKStable ==
    (query.op \in {"findRelated", "searchByText"} /\ query.found) =>
        LET AsZero(q) ==
                [i \in 1..Len(q) |->
                    IF q[i].score.nan
                    THEN [q[i] EXCEPT !.score = [nan |-> FALSE, dot |-> 0, sq |-> 1]]
                    ELSE q[i]]
        IN /\ Len(query.ranked) <= query.k
           /\ AsZero(query.ranked) = SliceTo(StableSort(AsZero(query.cands)), query.k)

\* C21: when an indexAll run that went through the whole document list
\* returns, every record of the store is up to date with its document (it
\* carries the document's current modification time and the embedding of that
\* version) or its document no longer exists, also when some documents failed
\* to embed during the run
C21_StoreFreshAfterFullRun ==
    [][(Active("s1") /\ sess'["s1"].pc = "done" /\ sess'["s1"].pruned) =>
          \A k \in 1..Len(vectors') :
             LET v == vectors'[k]
             IN \/ v.path \notin DOMAIN vault
                \/ /\ v.mtime = vault[v.path]
                   /\ v.embedding = Embedding(v.path, vault[v.path])]_vars

\* C22: all records of the store share one embedding dimension after any
\* sequence of operations, upserts made after setModel included; and the
\* dimension written in the header of the binary file equals the length of
\* every embedding of the store at the time of the save
C22_OneDimension ==
    /\ [](\A i, j \in 1..Len(vectors) :
             (IsRec(vectors[i]) /\ IsRec(vectors[j])) =>
                Len(vectors[i].embedding) = Len(vectors[j].embedding))
    /\ [][binFile' # binFile /\ binFile'.exists =>
             \A k \in 1..Len(vectors) :
                IsRec(vectors[k]) =>
                   Len(vectors[k].embedding) = U32Value(Slice(binFile'.data, 8, 4))]_vars

\* C23: with the format binary and only the legacy file on disk, load returns
\* the legacy file's records; after the next save that returned without error
\* the binary file holds the store's records and the legacy file is gone
C23_LegacyMigrated ==
    /\ rtPhase = "loaded" => vectors = rtInput
    /\ rtPhase = "resaved" =>
          /\ binFile.exists
          /\ DecodeBinary(binFile.data).ok
          /\ DecodeBinary(binFile.data).recs = vectors
          /\ ~jsonFile.exists

\* C24: whenever an indexAll invocation that was accepted returns or throws
\* (completion, cancellation, a failure while loading or saving the store),
\* the service is no longer marked as indexing, so the next indexAll request
\* is accepted and not rejected as already in progress
C24_ReturnClearsRunning ==
    [][\A s \in Sessions :
          (Active(s) /\ sess'[s].pc = "done") => ~isIndexing']_vars

\* C25: when clearIndex() completes and no indexing session is running, the
\* in-memory store is empty and neither the binary file nor the legacy file
\* exists on disk
C25_ClearLeavesNothing ==
    [][(clearPc = "json" /\ clearPc' = "idle" /\ \A s \in Sessions : ~Active(s)) =>
          (vectors' = << >> /\ ~binFile'.exists /\ ~jsonFile'.exists)]_vars

\* C26: cancelIndexing() called while no indexing session is running changes
\* nothing (the store, the running flag, the sessions' counters and tokens),
\* and a session started afterwards is not born cancelled
C26_IdleCancelNoop ==
    [][/\ ((\A s \in Sessions : ~Active(s)) /\ CancelIndexing) =>
             UNCHANGED << vectors, isIndexing, aborted, sess >>
       /\ \A s \in Sessions :
             (~Active(s) /\ sess'[s].pc \notin {"idle", "done"}) => ~aborted'[s]]_vars

\* the session whose token was aborted is still running
Stopping(s) == aborted[s] /\ Active(s)

\* C27 as stated: after cancelIndexing() on a running session indexAll starts
\* no new document, the only document upserted is one whose embedding request
\* was in flight when cancel was called (no embedding request is sent after
\* the cancel), and the loop stops at the next per-document check
C27_OnlyInFlightRequestCompletes ==
    [][\A s \in Sessions :
          Stopping(s) =>
             /\ sess[s].pc # "read" => sess'[s].pc # "read"
             /\ sess[s].pc # "embed" => sess'[s].pc # "embed"
             /\ sess'[s].i > sess[s].i => (sess'[s].cancelled \/ sess'[s].pc = "yield")]_vars

\* C27, amended: after cancelIndexing() on a running session indexAll starts
\* no new document; at most the one document that was being processed when
\* cancel was called (its content being read or its embedding request in
\* flight) is upserted; and the loop stops at the next per-document check
C27_CurrentDocumentCompletes ==
    [][\A s \in Sessions :
          Stopping(s) =>
             /\ sess[s].pc # "read" => sess'[s].pc # "read"
             /\ sess'[s].pc = "embed" => sess[s].pc \in {"read", "embed"}
             /\ Len(sess'[s].order) > Len(sess[s].order) =>
                   (sess[s].pc = "embed" /\ sess'[s].pc \notin {"read", "embed"})
             /\ sess'[s].i > sess[s].i => (sess'[s].cancelled \/ sess'[s].pc = "yield")]_vars

\* a cancelled run that upserted its first document and stopped at the check
\* of the second
C27_Witness ==
    /\ sess["s1"].cancelled
    /\ aborted["s1"]
    /\ Len(sess["s1"].order) = 1
    /\ sess["s1"].i = 2
    /\ sess["s1"].order[1].path = sess["s1"].files[1]
    /\ sess["s1"].files[2] \notin PathsOf(vectors)

\* C28: indexAll reports (processed, total) to the progress observer with
\* processed = 1, 2, ... rising and total constant, and the report (p, total)
\* is made after the p-th document has been processed (indexed, skipped or
\* failed), never before it
C28_ProgressAfterDocument ==
    /\ [](\A s \in Sessions :
            sess[s].progress.processed > 0 =>
               /\ sess[s].progress.total = Len(sess[s].files)
               /\ sess[s].progress.processed <= sess[s].progress.total
               /\ sess[s].progress.ended >= sess[s].progress.processed)
    /\ [][\A s \in Sessions :
            Active(s) => sess'[s].progress.processed >= sess[s].progress.processed]_vars

\* C29: a Title Only request is sent only when a non-empty title was supplied
\* and a Safe Mode request was sent just before it in the same call and did not
\* yield an embedding the client accepts; a call without a title (searchByText)
\* never sends a Title Only request
C29_TitleOnlyAfterFailedSafeMode ==
    /\ gen.title \in {NoTitle, ""} => Sent("title") = 0
    /\ \A k \in 1..Len(gen.reqs) :
          gen.reqs[k] = "title" =>
             /\ gen.title = "T"
             /\ k > 1 /\ gen.reqs[k - 1] = "safe"
             /\ Len(gen.resps) >= k - 1
             /\ ~(/\ gen.resps[k - 1].t = "http"
                  /\ gen.resps[k - 1].status = StatusOk
                  /\ gen.resps[k - 1].json.kind = "array")

\* a titled call whose Safe Mode request was answered 200 without an embedding
\* array, and which then sent its Title Only request
C29_Witness ==
    /\ gen.title = "T"
    /\ Sent("safe") = 1 /\ Sent("title") = 1
    /\ Len(gen.resps) > gen.last /\ Malformed(gen.resps[gen.last + 1])

\* C30: every embedding generateEmbedding returns, in full-text, Safe Mode or
\* Title Only mode, is a non-empty sequence: a 200 response carrying an empty
\* embedding array is never returned as a success
C30_ReturnedEmbeddingNonEmpty ==
    (gen.pc = "done" /\ gen.result = "embedding") =>
        /\ gen.mode \in {"full", "safe", "title"}
        /\ Len(gen.value) > 0

\* C31: a record written by indexNote carries the modification time of the
\* document version whose content was embedded: no record pairs the embedding
\* of an older content with a newer modification time
C31_MtimeOfEmbeddedVersion ==
    \A k \in 1..Len(vectors) :
        IsRec(vectors[k]) => vectors[k].embedding[1] = vectors[k].mtime

\* C32: after a save that returned without error, the file of the configured
\* format decodes to exactly the store as it was at the time of the save, the
\* empty store included
C32_SavedFileIsSnapshot ==
    (rtPhase = "saved" /\ format = "binary") =>
        /\ binFile.exists
        /\ DecodeBinary(binFile.data).ok
        /\ DecodeBinary(binFile.data).recs = rtInput

\* C33: indexNote only ever changes the record of its own path: when the store
\* was pruned, reloaded or cleared while the call's read or embedding request
\* was in flight, the completing call overwrites no other path's record,
\* leaves exactly one record of its path and leaves no missing slot
C33_OnlyOwnRecordChanged ==
    [][\A c \in Callers :
          WritesRecord(c) =>
             /\ \A k \in 1..Len(vectors') : IsRec(vectors'[k])
             /\ CountPath(vectors', call[c].path) = 1
             /\ \A v \in RecordsOf(vectors) :
                   v.path # call[c].path => v \in RecordsOf(vectors')]_vars

\* C34: when an indexNote completed while a loadVectors() was still in
\* progress, then once the load has finished the store holds every persisted
\* path exactly once and the indexed path exactly once, with the record the
\* indexNote wrote: the load neither duplicates nor discards that record
C34_LoadKeepsUpsertedRecord ==
    [][(bootPc # "done" /\ bootPc' = "done") =>
          /\ \A v \in RecordsOf(vectors) :
                v \in RecordsOf(vectors') /\ CountPath(vectors', v.path) = 1
          /\ \A q \in PathsOf(DiskStore) : CountPath(vectors', q) = 1]_vars

\* C35: a record inserted by a standalone indexNote is still in the store when
\* a later indexAll runs its loop: indexAll reads and embeds no document that
\* the last indexNote indexed and that has not been modified since
C35_IndexAllKeepsUpsertedRecord ==
    \A s \in Sessions : \A c \in Callers :
        (sess[s].pc \in {"read", "embed"} /\ call[c].pc = "done" /\ call[c].result = "ok")
        => ~(/\ call[c].path = sess[s].files[sess[s].i]
             /\ call[c].content = vault[call[c].path])

\* C36: the running flag and the cancellation token belong to the session
\* whose loop is executing: a session that is active and was not cancelled
\* is marked running and holds the token, whatever earlier, cancelled
\* invocation terminates meanwhile, so that a cancel reaches it
C36_FlagsBelongToRunningSession ==
    \A s \in Sessions :
        (Active(s) /\ ~aborted[s]) => (isIndexing /\ abortController = s)

\* C37: in indexAll every processed document is counted in exactly one of
\* three classes (skipped as up to date, succeeded, failed): the three counts
\* never add up to more than the documents reached, and a document counted as
\* failed has had no record written for it in this run
C37_OneClassPerDocument ==
    \A s \in Sessions :
        /\ sess[s].succ + sess[s].skip + sess[s].err <= sess[s].i
        /\ sess[s].err = Len(sess[s].failed)
        /\ \A k \in 1..Len(sess[s].failed) :
              \A j \in 1..Len(sess[s].order) : sess[s].order[j].path # sess[s].failed[k]

\* C38: a cancelled indexAll removes no record from the store: it never
\* prunes, from the moment it observes the cancellation no step of it removes
\* a path from memory or from disk, and when it returns after a save that did
\* not fail every path in memory is on disk
C38_CancelledRunRemovesNothing ==
    /\ [](\A s \in Sessions :
            sess[s].cancelled =>
               /\ ~sess[s].pruned
               /\ (sess[s].pc = "done" /\ sess[s].wfail = {} /\ sess[s].succ > 0)
                     => PathsOf(vectors) \subseteq PathsOf(DiskStore))
    /\ [][\A s \in Sessions :
            (Active(s) /\ sess'[s].cancelled) =>
               /\ PathsOf(vectors) \subseteq PathsOf(vectors')
               /\ PathsOf(DiskStore) \subseteq PathsOf(DiskStore')]_vars

\* C39: after any save that returned without error at most one of the two
\* files (binary, legacy) exists on disk, whatever format switches, loads and
\* saves came before
C39_OneFileAfterSave ==
    [][\A s \in Sessions :
          (/\ sess[s].pc \in {"savedir", "writejson", "saverm"}
           /\ sess'[s].pc \notin {"writebin", "writejson"}
           /\ sess'[s].wfail = sess[s].wfail)
          => ~(binFile'.exists /\ jsonFile'.exists)]_vars

\* C40: findRelated and searchByText return exactly min(k, n) results, n being
\* the number of candidate records whose path resolves to an existing
\* document: records of deleted documents take no slot among the top k
C40_DeletedTakeNoSlot ==
    query.found =>
        LET n == Len(Resolve(query.cands, vault))
        IN Len(query.result) = IF query.k < n THEN query.k ELSE n
====
